---------------------------- MODULE Spec2Model ----------------------------
(***************************************************************************)
(* Model of docker/ytdlp-api/server.py: the /download admission path       *)
(* (asyncio.Semaphore(MAX_CONCURRENT) taken through asyncio.wait_for with  *)
(* a 5 second timeout, the active_downloads counter, the job run with      *)
(* asyncio.to_thread on the bounded default executor), the ungated /info   *)
(* path, the error classifier _parse_error, the job _download on the       *)
(* entries of DOWNLOAD_DIR, and the sweeper _cleanup_loop.                 *)
(*                                                                         *)
(* Every action is one uninterrupted run of a coroutine on the event loop  *)
(* (from one suspension point to the next), or one step of a worker        *)
(* thread, or the passing of one unit of time.  The states between the     *)
(* actions are therefore exactly the points at which another handler       *)
(* (for example /health) can run and read the shared state.                *)
(*                                                                         *)
(* The semaphore follows CPython's asyncio.locks.Semaphore (3.12): a       *)
(* counter, a FIFO of waiter futures, release() handing the unit to the    *)
(* first pending waiter, and a cancelled waiter that had already been      *)
(* handed a unit putting it back.                                          *)
(***************************************************************************)
EXTENDS Integers, Sequences, FiniteSets, TLC

\* ---- program constants ---------------------------------------------------
\* MAX_CONCURRENT_DOWNLOADS as configured for the model (any int >= 1)
MAX_CONCURRENT == 2
\* the timeout of wait_for(semaphore.acquire(), timeout=5.0), in seconds
TIMEOUT == 5
\* MAX_DURATION_SECONDS
MAX_DURATION == 600
\* threads of the executor behind asyncio.to_thread: the default executor of
\* the loop, with min(32, os.cpu_count() + 4) of them (5 on a host with one
\* CPU, as many as MAX_CONCURRENT by default); scaled as MAX_CONCURRENT is
MAX_WORKERS == 2

\* ---- bounds of the model -------------------------------------------------
\* download requests sent to the service
NReq == 3
\* info requests sent to the service
NInfo == 1
\* handler tasks cancelled from outside (server shutdown, client gone)
MaxCancels == 1
\* pieces put together into one failure text
MaxFrags == 2
\* download jobs that reach _download
NJobs == 2
\* seconds that pass in one step of the clock
TimeStep == 100

Reqs == 1..NReq
Infos == 1..NInfo

VARIABLES
    value,              \* semaphore._value
    waiters,            \* semaphore._waiters: requests in FIFO order
    fut,                \* per request: state of its waiter future
    active_downloads,   \* the global counter
    pc,                 \* per download request: where its handler is
    cancel,             \* per request: CancelledError pending in its task
    job,                \* per request: the worker thread running _download
    waited,             \* per request: seconds since it started to wait
    held,               \* per request: seconds since it was granted a unit
    acq,                \* per request: acquire() calls that returned True
    rel,                \* per request: number of semaphore.release() calls
    ncancel,            \* handler tasks cancelled so far
    ipc,                \* per info request: where its handler is
    ijob,               \* per info request: the worker thread
    work_queue,         \* the executor's queue of calls no thread has taken
    error_text,         \* _parse_error: its argument, a sequence of characters
    result,             \* _parse_error: what it returned
    ppc,                \* _parse_error: "text" before the call, "done" after
    dir,                \* DOWNLOAD_DIR: its entries, by name
    jpc,                \* per job: where _download (and its handler) is
    filename,           \* per job: the resolved filename
    actual_filename,    \* per job: the entry the listdir loop found
    file_size,          \* per job: what os.path.getsize returned
    exc,                \* per job: str(e) of the exception it raised
    response,           \* per job: what the caller of /download gets
    made,               \* per job: the file its engine call wrote
    spc,                \* _cleanup_loop: "sleep" or "sweep"
    clock,              \* seconds since _cleanup_loop went to sleep
    todo,               \* _cleanup_old_files: listed entries not yet visited
    errs,               \* entries whose visit raised, in the latest cycle
    swept,              \* entries the latest cycle deleted
    lastls              \* how os.listdir of the latest cycle ended

vars == <<value, waiters, fut, active_downloads, pc, cancel, job, waited,
          held, acq, rel, ncancel, ipc, ijob, work_queue, error_text,
          result,
          ppc, dir, jpc, filename, actual_filename, file_size, exc, response,
          made, spc, clock, todo, errs, swept, lastls>>

semvars == <<value, waiters, fut>>
infovars == <<ipc, ijob>>
parsevars == <<error_text, result, ppc>>
jobvars == <<jpc, filename, actual_filename, file_size, exc, response, made>>
sweepvars == <<spc, clock, todo, errs, swept, lastls>>
filevars == <<dir, jobvars, sweepvars>>
servervars == <<value, waiters, fut, active_downloads, pc, cancel, job,
                waited, held, acq, rel, ncancel, ipc, ijob, work_queue>>

\* ---- asyncio.Semaphore ---------------------------------------------------

\* variant of Locked that tests value < 0 instead of value = 0
LockedOffByOne ==
    \/ value < 0
    \/ \E i \in 1..Len(waiters) : fut[waiters[i]] # "cancelled"
\* Semaphore.locked(): no unit left, or a waiter that is not cancelled
Locked ==
    \/ value = 0
    \/ \E i \in 1..Len(waiters) : fut[waiters[i]] # "cancelled"

\* variant of WakeUpNext that wakes the waiter without taking the unit
WakeUpNextNoTake(s, ws) ==
    LET pend == {i \in 1..Len(ws) : s.fut[ws[i]] = "pending"}
    IN  IF pend = {} THEN s
        ELSE LET first == CHOOSE i \in pend : \A j \in pend : i <= j
             IN  [value |-> s.value,
                  fut   |-> [s.fut EXCEPT ![ws[first]] = "result"]]
\* Semaphore._wake_up_next() on the pair s = [value, fut] with queue ws:
\* hand one unit to the first waiter whose future is still pending
WakeUpNext(s, ws) ==
    LET pend == {i \in 1..Len(ws) : s.fut[ws[i]] = "pending"}
    IN  IF pend = {} THEN s
        ELSE LET first == CHOOSE i \in pend : \A j \in pend : i <= j
             IN  [value |-> s.value - 1,
                  fut   |-> [s.fut EXCEPT ![ws[first]] = "result"]]

\* the closing loop of Semaphore.acquire():
\*   while self._value > 0: if not self._wake_up_next(): break
RECURSIVE WakeAll(_, _)
WakeAll(s, ws) ==
    IF s.value > 0 /\ \E i \in 1..Len(ws) : s.fut[ws[i]] = "pending"
    THEN WakeAll(WakeUpNext(s, ws), ws)
    ELSE s

\* Semaphore.release(): self._value += 1; self._wake_up_next()
Release(s, ws) == WakeUpNext([s EXCEPT !.value = @ + 1], ws)

Sem == [value |-> value, fut |-> fut]

Remove(ws, r) == SelectSeq(ws, LAMBDA x : x # r)

\* ---- asyncio.to_thread ---------------------------------------------------
\* loop.run_in_executor(None, ...): the call is queued; a thread that is
\* idle (or a new one, up to MAX_WORKERS) takes it at once, otherwise it
\* waits in the queue until a thread has ended the call it is running.

BusyWorkers ==
    Cardinality({r \in Reqs : job[r] = "running"})
        + Cardinality({i \in Infos : ijob[i] = "running"})

\* a thread of the executor can take a call at once
WorkerFree == BusyWorkers < MAX_WORKERS

\* to_thread(_download, ...) of request r
ToThread(r) ==
    IF WorkerFree
    THEN /\ job' = [job EXCEPT ![r] = "running"]
         /\ UNCHANGED work_queue
    ELSE /\ job' = [job EXCEPT ![r] = "queued"]
         /\ work_queue' = Append(work_queue, <<"download", r>>)

\* to_thread(_extract_info, ...) of info request i
InfoToThread(i) ==
    IF WorkerFree
    THEN /\ ijob' = [ijob EXCEPT ![i] = "running"]
         /\ UNCHANGED work_queue
    ELSE /\ ijob' = [ijob EXCEPT ![i] = "queued"]
         /\ work_queue' = Append(work_queue, <<"info", i>>)

\* a thread has ended its call, leaving js and is as the states of the
\* calls: it takes the next call of the queue, if there is one
TakeNext(js, is) ==
    IF work_queue = <<>>
    THEN /\ job' = js
         /\ ijob' = is
         /\ UNCHANGED work_queue
    ELSE LET h == Head(work_queue)
         IN  /\ work_queue' = Tail(work_queue)
             /\ job' = IF h[1] = "download"
                       THEN [js EXCEPT ![h[2]] = "running"] ELSE js
             /\ ijob' = IF h[1] = "info"
                        THEN [is EXCEPT ![h[2]] = "running"] ELSE is

\* ---- /download -----------------------------------------------------------

Submitted == {r \in Reqs : pc[r] # "new"}

\* a handler whose awaited future is done: the loop runs it without delay
Runnable(r) ==
    \/ pc[r] = "acquire" /\ fut[r] \in {"result", "cancelled"}
    \/ pc[r] = "thread"
            /\ (job[r] \notin {"queued", "running"} \/ cancel[r] # "none")

\* variant of TimerDue: acquire() awaited without a timeout
TimerNever(r) == FALSE
\* variant of TimerDue: the timer fires one second late
TimerDueLate(r) ==
    pc[r] = "acquire" /\ cancel[r] = "none" /\ waited[r] > TIMEOUT
\* the wait_for timer of r is due
TimerDue(r) ==
    pc[r] = "acquire" /\ cancel[r] = "none" /\ waited[r] >= TIMEOUT

\* download_video up to its first suspension: semaphore.acquire() either
\* takes a unit at once (then active_downloads += 1 and the job is handed to
\* a thread) or queues a waiter future and suspends under the timer.
Submit(r) ==
    /\ pc[r] = "new"
    /\ IF ~Locked
       THEN /\ value' = value - 1
            /\ active_downloads' = active_downloads + 1
            /\ pc' = [pc EXCEPT ![r] = "thread"]
            /\ ToThread(r)
            /\ acq' = [acq EXCEPT ![r] = @ + 1]
            /\ UNCHANGED <<waiters, fut>>
       ELSE /\ waiters' = Append(waiters, r)
            /\ fut' = [fut EXCEPT ![r] = "pending"]
            /\ pc' = [pc EXCEPT ![r] = "acquire"]
            /\ UNCHANGED <<value, active_downloads, job, acq, work_queue>>
    /\ UNCHANGED <<cancel, waited, held, rel, ncancel, infovars>>
    /\ UNCHANGED <<parsevars, filevars>>

\* the timer of wait_for fires: the task is cancelled; a pending waiter
\* future is cancelled with it, a future that already has its result is not.
\* (When the timer fires is TimerDue, which the timed specifications add.)
TimeoutFires(r) ==
    /\ pc[r] = "acquire"
    /\ cancel[r] = "none"
    /\ cancel' = [cancel EXCEPT ![r] = "timeout"]
    /\ fut' = [fut EXCEPT ![r] = IF @ = "pending" THEN "cancelled" ELSE @]
    /\ UNCHANGED <<value, waiters, active_downloads, pc, job, waited, held,
                   acq, rel, ncancel, infovars, work_queue>>
    /\ UNCHANGED <<parsevars, filevars>>

\* the handler task is cancelled from outside while it is suspended; a
\* call that no thread has taken yet is cancelled with it and never runs
CancelHandler(r) ==
    /\ pc[r] \in {"acquire", "thread"}
    /\ cancel[r] = "none"
    /\ ncancel < MaxCancels
    /\ ncancel' = ncancel + 1
    /\ cancel' = [cancel EXCEPT ![r] = "cancel"]
    /\ fut' = [fut EXCEPT ![r] = IF @ = "pending" THEN "cancelled" ELSE @]
    /\ job' = [job EXCEPT ![r] = IF @ = "queued" THEN "none" ELSE @]
    /\ work_queue' = SelectSeq(work_queue, LAMBDA x : x # <<"download", r>>)
    /\ UNCHANGED <<value, waiters, active_downloads, pc, waited, held,
                   acq, rel, infovars>>
    /\ UNCHANGED <<parsevars, filevars>>

\* variant of ResumeAcquire in which a waiter that is cancelled after it
\* was handed a unit does not put the unit back
ResumeAcquireKeepsUnit(r) ==
    /\ pc[r] = "acquire"
    /\ fut[r] \in {"result", "cancelled"}
    /\ LET ws == Remove(waiters, r)
           s == WakeAll([Sem EXCEPT !.fut[r] = "none"], ws)
       IN  /\ waiters' = ws
           /\ value' = s.value
           /\ fut' = s.fut
    /\ IF cancel[r] # "none"
       THEN /\ pc' = [pc EXCEPT ![r] =
                        IF cancel[r] = "timeout" THEN "busy" ELSE "cancelled"]
            /\ UNCHANGED <<active_downloads, job, acq, work_queue>>
       ELSE /\ pc' = [pc EXCEPT ![r] = "thread"]
            /\ active_downloads' = active_downloads + 1
            /\ ToThread(r)
            /\ acq' = [acq EXCEPT ![r] = @ + 1]
    /\ cancel' = [cancel EXCEPT ![r] = "none"]
    /\ waited' = [waited EXCEPT ![r] = 0]
    /\ UNCHANGED <<held, rel, ncancel, infovars>>
    /\ UNCHANGED <<parsevars, filevars>>
\* the handler resumes inside semaphore.acquire().  It leaves the queue.
\* Cancelled: a unit it had been handed goes back, and it ends with 429
\* (timer) or with the CancelledError.  Otherwise acquire() returns True,
\* and the handler runs on: active_downloads += 1, job handed to a thread.
ResumeAcquire(r) ==
    /\ pc[r] = "acquire"
    /\ fut[r] \in {"result", "cancelled"}
    /\ LET ws == Remove(waiters, r)
           back == IF cancel[r] # "none" /\ fut[r] = "result"
                   THEN [Sem EXCEPT !.value = @ + 1] ELSE Sem
           s == WakeAll([back EXCEPT !.fut[r] = "none"], ws)
       IN  /\ waiters' = ws
           /\ value' = s.value
           /\ fut' = s.fut
    /\ IF cancel[r] # "none"
       THEN /\ pc' = [pc EXCEPT ![r] =
                        IF cancel[r] = "timeout" THEN "busy" ELSE "cancelled"]
            /\ UNCHANGED <<active_downloads, job, acq, work_queue>>
       ELSE /\ pc' = [pc EXCEPT ![r] = "thread"]
            /\ active_downloads' = active_downloads + 1
            /\ ToThread(r)
            /\ acq' = [acq EXCEPT ![r] = @ + 1]
    /\ cancel' = [cancel EXCEPT ![r] = "none"]
    /\ waited' = [waited EXCEPT ![r] = 0]
    /\ UNCHANGED <<held, rel, ncancel, infovars>>
    /\ UNCHANGED <<parsevars, filevars>>

\* the worker thread of r ends _download, with a result or with an
\* exception; nobody takes the outcome of a thread whose handler is gone
JobEnds(r, outcome) ==
    /\ job[r] = "running"
    /\ TakeNext([job EXCEPT ![r] = IF pc[r] = "thread" THEN outcome
                                  ELSE "none"],
                ijob)
    /\ UNCHANGED <<value, waiters, fut, active_downloads, pc, cancel, waited,
                   held, acq, rel, ncancel, ipc>>
    /\ UNCHANGED <<parsevars, filevars>>

\* variant of Finally without active_downloads -= 1
FinallyNoDecrement(r) ==
    LET s == Release(Sem, waiters)
    IN  /\ active_downloads' = active_downloads
        /\ value' = s.value
        /\ fut' = s.fut
        /\ rel' = [rel EXCEPT ![r] = @ + 1]
\* variant of Finally without semaphore.release()
FinallyNoRelease(r) ==
    /\ active_downloads' = active_downloads - 1
    /\ UNCHANGED <<value, fut, rel>>
\* variant of Finally for code that cleans up after the try block instead
\* of in a finally clause: it runs only when the job returned
FinallyOnSuccess(r) ==
    IF job[r] = "ok" /\ cancel[r] = "none"
    THEN LET s == Release(Sem, waiters)
         IN  /\ active_downloads' = active_downloads - 1
             /\ value' = s.value
             /\ fut' = s.fut
             /\ rel' = [rel EXCEPT ![r] = @ + 1]
    ELSE UNCHANGED <<active_downloads, value, fut, rel>>
\* the finally block of download_video
Finally(r) ==
    LET s == Release(Sem, waiters)
    IN  /\ active_downloads' = active_downloads - 1
        /\ value' = s.value
        /\ fut' = s.fut
        /\ rel' = [rel EXCEPT ![r] = @ + 1]

\* variant of Return without the except clause: the exception of the job
\* leaves the handler as it is
ReturnNoExcept(r) ==
    /\ pc[r] = "thread"
    /\ job[r] \notin {"queued", "running"} \/ cancel[r] # "none"
    /\ pc' = [pc EXCEPT ![r] =
                IF cancel[r] # "none" THEN "cancelled"
                ELSE IF job[r] = "ok" THEN "ok" ELSE "fault"]
    /\ Finally(r)
    /\ job' = [job EXCEPT ![r] = IF @ = "running" THEN @ ELSE "none"]
    /\ cancel' = [cancel EXCEPT ![r] = "none"]
    /\ held' = [held EXCEPT ![r] = 0]
    /\ UNCHANGED <<waiters, waited, acq, ncancel, infovars, work_queue>>
    /\ UNCHANGED <<parsevars, filevars>>
\* the handler resumes after to_thread: return result, or except Exception
\* (HTTPException 400), or the CancelledError passes through; finally runs
\* in each case
Return(r) ==
    /\ pc[r] = "thread"
    /\ job[r] \notin {"queued", "running"} \/ cancel[r] # "none"
    /\ pc' = [pc EXCEPT ![r] =
                IF cancel[r] # "none" THEN "cancelled"
                ELSE IF job[r] = "ok" THEN "ok" ELSE "error"]
    /\ Finally(r)
    /\ job' = [job EXCEPT ![r] = IF @ = "running" THEN @ ELSE "none"]
    /\ cancel' = [cancel EXCEPT ![r] = "none"]
    /\ held' = [held EXCEPT ![r] = 0]
    /\ UNCHANGED <<waiters, waited, acq, ncancel, infovars, work_queue>>
    /\ UNCHANGED <<parsevars, filevars>>

\* ---- /info ---------------------------------------------------------------

\* variant of InfoSubmit that takes a unit of the pool first
InfoSubmitGated(i) ==
    /\ ipc[i] = "new"
    /\ ~Locked
    /\ value' = value - 1
    /\ ipc' = [ipc EXCEPT ![i] = "thread"]
    /\ InfoToThread(i)
    /\ UNCHANGED <<waiters, fut, active_downloads, pc, cancel, job, waited,
                   held, acq, rel, ncancel>>
    /\ UNCHANGED <<parsevars, filevars>>
\* get_info up to its suspension: the lookup is handed to a thread
InfoSubmit(i) ==
    /\ ipc[i] = "new"
    /\ ipc' = [ipc EXCEPT ![i] = "thread"]
    /\ InfoToThread(i)
    /\ UNCHANGED <<semvars, active_downloads, pc, cancel, job, waited, held,
                   acq, rel, ncancel>>
    /\ UNCHANGED <<parsevars, filevars>>

\* the worker thread ends _extract_info and get_info resumes: return info,
\* or except Exception (HTTPException 400 with the classified message)
InfoReturn(i, outcome) ==
    /\ ipc[i] = "thread"
    /\ ijob[i] = "running"
    /\ TakeNext(job, [ijob EXCEPT ![i] = "none"])
    /\ ipc' = [ipc EXCEPT ![i] = outcome]
    /\ UNCHANGED <<semvars, active_downloads, pc, cancel, waited, held,
                   acq, rel, ncancel>>
    /\ UNCHANGED <<parsevars, filevars>>

\* ---- time ----------------------------------------------------------------

\* one second passes.  The event loop runs ready handlers and due timers
\* without delay, so time passes only when there are none.
Tick ==
    /\ \A r \in Reqs : ~Runnable(r) /\ ~TimerDue(r)
    /\ waited' = [r \in Reqs |->
                    IF pc[r] = "acquire" /\ waited[r] <= TIMEOUT
                    THEN waited[r] + 1 ELSE waited[r]]
    /\ held' = [r \in Reqs |->
                    IF pc[r] = "thread" /\ held[r] <= TIMEOUT
                    THEN held[r] + 1 ELSE held[r]]
    /\ UNCHANGED <<semvars, active_downloads, pc, cancel, job, acq, rel,
                   ncancel, infovars, work_queue>>
    /\ UNCHANGED <<parsevars, filevars>>

\* ---- _parse_error -----------------------------------------------------
\* A text is a sequence of characters (one-character strings).

UPPER ==
    <<"A", "B", "C", "D", "E", "F", "G", "H", "I", "J", "K", "L", "M",
      "N", "O", "P", "Q", "R", "S", "T", "U", "V", "W", "X", "Y", "Z">>
LOWER ==
    <<"a", "b", "c", "d", "e", "f", "g", "h", "i", "j", "k", "l", "m",
      "n", "o", "p", "q", "r", "s", "t", "u", "v", "w", "x", "y", "z">>

\* str.lower(), one character
LowerChar(c) ==
    IF \E i \in 1..Len(UPPER) : UPPER[i] = c
    THEN LOWER[CHOOSE i \in 1..Len(UPPER) : UPPER[i] = c]
    ELSE c

\* str.lower()
ToLower(t) == [i \in 1..Len(t) |-> LowerChar(t[i])]

\* sub in t
Contains(sub, t) ==
    \E i \in 0..(Len(t) - Len(sub)) : SubSeq(t, i + 1, i + Len(sub)) = sub

\* bool(s) of a str: a non-empty string is true
Truthy(s) == Len(s) > 0

\* the string literals of _parse_error
K_filter ==
    <<"d", "o", "e", "s", " ", "n", "o", "t", " ", "p", "a", "s", "s", 
      " ", "f", "i", "l", "t", "e", "r">>
K_duration == <<"d", "u", "r", "a", "t", "i", "o", "n">>
K_private ==
    <<"p", "r", "i", "v", "a", "t", "e", " ", "v", "i", "d", "e", "o">>
K_signin == <<"s", "i", "g", "n", " ", "i", "n">>
K_copyright == <<"c", "o", "p", "y", "r", "i", "g", "h", "t">>
K_blocked == <<"b", "l", "o", "c", "k", "e", "d">>
K_age == <<"a", "g", "e">>
K_confirm ==
    <<"c", "o", "n", "f", "i", "r", "m", " ", "y", "o", "u", "r", " ", 
      "a", "g", "e">>
K_unavailable == <<"u", "n", "a", "v", "a", "i", "l", "a", "b", "l", "e">>
K_notavailable ==
    <<"n", "o", "t", " ", "a", "v", "a", "i", "l", "a", "b", "l", "e">>
K_live == <<"l", "i", "v", "e">>
K_premieres == <<"p", "r", "e", "m", "i", "e", "r", "e", "s">>
K_scheduled == <<"s", "c", "h", "e", "d", "u", "l", "e", "d">>
K_members == <<"m", "e", "m", "b", "e", "r", "s", " ", "o", "n", "l", "y">>
K_unsupported ==
    <<"u", "n", "s", "u", "p", "p", "o", "r", "t", "e", "d", " ", "u", 
      "r", "l">>

\* What _parse_error returns: one of its messages (msg, with the number the
\* f-string formats in n), or the text it was given (raw).
Message(m) == [msg |-> m, n |-> 0, raw |-> <<>>]
Minutes(m, k) == [msg |-> m, n |-> k, raw |-> <<>>]
Raw(t) == [msg |-> "", n |-> 0, raw |-> t]
NoResult == Message("")

\* lines 195-198 of _parse_error with the two filter tests in the other order
DurationRulesSwapped(lower, rest) ==
    IF Contains(K_filter, lower)
    THEN Message("DURATION_TOO_LONG:exceeds limit")
    ELSE IF Truthy(K_filter) /\ Contains(K_duration, lower)
    THEN Minutes("DURATION_TOO_LONG:over %d minutes", MAX_DURATION \div 60)
    ELSE rest
\* lines 195-198 of _parse_error: in
\*   if "does not pass filter" and "duration" in lower
\* the left operand of "and" is the string literal itself
DurationRules(lower, rest) ==
    IF Truthy(K_filter) /\ Contains(K_duration, lower)
    THEN Minutes("DURATION_TOO_LONG:over %d minutes", MAX_DURATION \div 60)
    ELSE IF Contains(K_filter, lower)
    THEN Message("DURATION_TOO_LONG:exceeds limit")
    ELSE rest

\* lines 199-216 of _parse_error, returning the lowercased copy at the end
ContentRulesReturnLower(lower, error_txt) ==
    IF Contains(K_private, lower) \/ Contains(K_signin, lower)
    THEN Message("This video is private or requires login")
    ELSE IF Contains(K_copyright, lower) \/ Contains(K_blocked, lower)
    THEN Message("This video is blocked due to copyright")
    ELSE IF Contains(K_age, lower) \/ Contains(K_confirm, lower)
    THEN Message("This video is age-restricted")
    ELSE IF Contains(K_unavailable, lower) \/ Contains(K_notavailable, lower)
    THEN Message("This video is unavailable")
    ELSE IF Contains(K_live, lower)
    THEN Message("Cannot download live streams")
    ELSE IF Contains(K_premieres, lower) \/ Contains(K_scheduled, lower)
    THEN Message("This video has not premiered yet")
    ELSE IF Contains(K_members, lower)
    THEN Message("This video is for channel members only")
    ELSE IF Contains(K_unsupported, lower)
    THEN Message("Unsupported URL or no video found")
    ELSE Raw(lower)
\* lines 199-216 of _parse_error
ContentRules(lower, error_txt) ==
    IF Contains(K_private, lower) \/ Contains(K_signin, lower)
    THEN Message("This video is private or requires login")
    ELSE IF Contains(K_copyright, lower) \/ Contains(K_blocked, lower)
    THEN Message("This video is blocked due to copyright")
    ELSE IF Contains(K_age, lower) \/ Contains(K_confirm, lower)
    THEN Message("This video is age-restricted")
    ELSE IF Contains(K_unavailable, lower) \/ Contains(K_notavailable, lower)
    THEN Message("This video is unavailable")
    ELSE IF Contains(K_live, lower)
    THEN Message("Cannot download live streams")
    ELSE IF Contains(K_premieres, lower) \/ Contains(K_scheduled, lower)
    THEN Message("This video has not premiered yet")
    ELSE IF Contains(K_members, lower)
    THEN Message("This video is for channel members only")
    ELSE IF Contains(K_unsupported, lower)
    THEN Message("Unsupported URL or no video found")
    ELSE Raw(error_txt)

\* _parse_error(error_text)
ParseError(error_txt) ==
    LET lower == ToLower(error_txt)
    IN  DurationRules(lower, ContentRules(lower, error_txt))

\* the call of _parse_error on the text at hand
Classify ==
    /\ ppc = "text"
    /\ result' = ParseError(error_text)
    /\ ppc' = "done"
    /\ UNCHANGED error_text
    /\ UNCHANGED <<servervars, filevars>>

\* Failure texts: pieces of engine messages, in the engine's spelling, put
\* together; some hold a keyword inside a longer word or form one only
\* across two pieces.
F_filter ==
    <<"d", "o", "e", "s", " ", "n", "o", "t", " ", "p", "a", "s", "s", 
      " ", "f", "i", "l", "t", "e", "r">>
F_duration == <<"d", "u", "r", "a", "t", "i", "o", "n">>
F_Duration == <<" ", "D", "u", "r", "a", "t", "i", "o", "n", " ">>
F_private ==
    <<"P", "r", "i", "v", "a", "t", "e", " ", "v", "i", "d", "e", "o">>
F_sign == <<"S", "i", "g", "n">>
F_in == <<" ", "i", "n">>
F_copyright == <<"C", "o", "p", "y", "r", "i", "g", "h", "t">>
F_blocked == <<"B", "L", "O", "C", "K", "E", "D">>
F_message == <<"m", "e", "s", "s", "a", "g", "e">>
F_confirm ==
    <<"c", "o", "n", "f", "i", "r", "m", " ", "y", "o", "u", "r", " ", 
      "a", "g", "e">>
F_unavailable == <<"U", "n", "a", "v", "a", "i", "l", "a", "b", "l", "e">>
F_notavailable ==
    <<"n", "o", "t", " ", "a", "v", "a", "i", "l", "a", "b", "l", "e">>
F_delivered == <<"d", "e", "l", "i", "v", "e", "r", "e", "d">>
F_premieres == <<"P", "r", "e", "m", "i", "e", "r", "e", "s">>
F_scheduled == <<"s", "c", "h", "e", "d", "u", "l", "e", "d">>
F_members == <<"m", "e", "m", "b", "e", "r", "s", " ", "o", "n", "l", "y">>
F_unsupported ==
    <<"U", "n", "s", "u", "p", "p", "o", "r", "t", "e", "d", " ", "U", 
      "R", "L">>
F_error == <<"E", "R", "R", "O", "R", ":", " ">>
F_http ==
    <<"H", "T", "T", "P", " ", "E", "r", "r", "o", "r", " ", "4", "0", 
      "3">>
Frags ==
    <<F_filter, F_duration, F_Duration, F_private, F_sign,
      F_in, F_copyright, F_blocked, F_message, F_confirm,
      F_unavailable, F_notavailable, F_delivered, F_premieres, F_scheduled,
      F_members, F_unsupported, F_error, F_http>>

RECURSIVE TextsUpTo(_)
TextsUpTo(n) ==
    IF n = 0 THEN {<<>>}
    ELSE LET T == TextsUpTo(n - 1)
         IN  T \cup {t \o Frags[i] : t \in T, i \in 1..Len(Frags)}

\* ---- DOWNLOAD_DIR and _download -------------------------------------------
\* An entry of the directory: a regular file, a symbolic link to a regular
\* file, or a subdirectory, with its size in bytes, its age (now minus its
\* last-modified time, in seconds) and the job whose engine call wrote it
\* (0: none of them).

\* MAX_FILE_SIZE_MB
MAX_FILE_SIZE_MB == 100
\* the retention window of _cleanup_old_files, in seconds
RETENTION == 600
\* the sleep of _cleanup_loop, in seconds
INTERVAL == 300
\* 1024 * 1024
MiB == 1024 * 1024

Jobs == 1..NJobs

\* filenames a request may carry; the empty one stands for None
N_clip ==
    <<"c", "l", "i", "p">>
N_clip2 ==
    <<"c", "l", "i", "p", "2">>
N_song ==
    <<"s", "o", "n", "g">>
FileNames == {<<>>, N_clip, N_clip2, N_song}
\* f"video_{int(time.time() * 1000)}": the prefix, and readings of the clock
N_video ==
    <<"v", "i", "d", "e", "o", "_">>
MS_a ==
    <<"1", "7", "0", "0", "0", "0", "0", "0", "0", "0", "0", "0", "1">>
MS_b ==
    <<"1", "7", "0", "0", "0", "0", "0", "0", "0", "0", "0", "0", "2">>
Millis == {MS_a, MS_b}
\* the extension the engine puts in place of %(ext)s
EXT ==
    <<".", "m", "p", "4">>
\* what a run may find in the directory when it starts: a partial file
\* of an earlier run, a subdirectory
L_part ==
    <<"c", "l", "i", "p", ".", "m", "p", "4", ".", "p", "a", "r", "t">>
L_sub ==
    <<"c", "l", "i", "p", "s">>
Leftovers == {L_part, L_sub}

Resolved == (FileNames \ {<<>>}) \cup {N_video \o ms : ms \in Millis}
Entries == {n \o EXT : n \in Resolved} \cup Leftovers

\* os.listdir(DOWNLOAD_DIR)
Present == DOMAIN dir
\* what is at name e
Absent == [kind |-> "none", size |-> 0, age |-> 0, by |-> 0]
At(e) == IF e \in DOMAIN dir THEN dir[e] ELSE Absent
\* the directory with x written at name e, and with name e removed
Put(e, x) == [n \in DOMAIN dir \cup {e} |-> IF n = e THEN x ELSE dir[n]]
Drop(e) == [n \in DOMAIN dir \ {e} |-> dir[n]]

\* str.startswith
StartsWith(t, prefix) ==
    Len(prefix) <= Len(t) /\ SubSeq(t, 1, Len(prefix)) = prefix

\* os.path.isfile: true of a regular file and, since it follows symbolic
\* links, of a link to one
IsFile(x) == x.kind \in {"file", "link"}

\* the messages of the exceptions
T_notfound ==
    <<"D", "o", "w", "n", "l", "o", "a", "d", " ", "c", "o", "m", "p", "l",
      "e", "t", "e", "d", " ", "b", "u", "t", " ", "o", "u", "t", "p", "u",
      "t", " ", "f", "i", "l", "e", " ", "n", "o", "t", " ", "f", "o", "u",
      "n", "d">>
T_empty ==
    <<"D", "o", "w", "n", "l", "o", "a", "d", "e", "d", " ", "f", "i", "l",
      "e", " ", "i", "s", " ", "e", "m", "p", "t", "y">>
T_toolarge ==
    <<"F", "I", "L", "E", "_", "T", "O", "O", "_", "L", "A", "R", "G", "E",
      ":">>
T_enoent ==
    <<"[", "E", "r", "r", "n", "o", " ", "2", "]", " ", "N", "o", " ", "s",
      "u", "c", "h", " ", "f", "i", "l", "e", " ", "o", "r", " ", "d", "i",
      "r", "e", "c", "t", "o", "r", "y", ":", " ", "'", "/", "d", "o", "w",
      "n", "l", "o", "a", "d", "s", "/">>
T_eisdir ==
    <<"[", "E", "r", "r", "n", "o", " ", "2", "1", "]", " ", "I", "s", " ",
      "a", " ", "d", "i", "r", "e", "c", "t", "o", "r", "y", ":", " ", "'",
      "/", "d", "o", "w", "n", "l", "o", "a", "d", "s", "/">>
T_private ==
    <<"E", "R", "R", "O", "R", ":", " ", "[", "y", "o", "u", "t", "u", "b",
      "e", "]", " ", "x", ":", " ", "P", "r", "i", "v", "a", "t", "e", " ",
      "v", "i", "d", "e", "o">>
T_http ==
    <<"E", "R", "R", "O", "R", ":", " ", "u", "n", "a", "b", "l", "e", " ",
      "t", "o", " ", "d", "o", "w", "n", "l", "o", "a", "d", " ", "v", "i",
      "d", "e", "o", " ", "d", "a", "t", "a", ":", " ", "H", "T", "T", "P",
      " ", "E", "r", "r", "o", "r", " ", "4", "0", "3">>
EngineTexts == {T_private, T_http}
OSErrorText(head, e) == head \o e \o <<"'">>

DIGITS == <<"0", "1", "2", "3", "4", "5", "6", "7", "8", "9">>
\* str of a natural number
RECURSIVE Decimal(_)
Decimal(n) ==
    IF n < 10 THEN <<DIGITS[n + 1]>>
    ELSE Decimal(n \div 10) \o <<DIGITS[(n % 10) + 1]>>

\* f"{file_size / (1024 * 1024):.1f}": the quotient is exact in a double and
\* the format rounds it to one decimal, a tie to the even digit
Fixed1(size) ==
    LET q == (size * 10) \div MiB
        r == (size * 10) % MiB
        t == IF 2 * r > MiB \/ (2 * r = MiB /\ q % 2 = 1) THEN q + 1 ELSE q
    IN  Decimal(t \div 10) \o <<".">> \o <<DIGITS[(t % 10) + 1]>>

\* f"FILE_TOO_LARGE:{file_size_mb:.1f}MB"
TooLargeText(size) == T_toolarge \o Fixed1(size) \o <<"M", "B">>

\* sizes of the files the engine writes
Sizes == {0, MAX_FILE_SIZE_MB * MiB, MAX_FILE_SIZE_MB * MiB + 1}

NoFile == [name |-> <<>>, size |-> 0]
NoResponse == [status |-> 0, detail |-> NoResult, filename |-> <<>>]

\* what one call of the engine (lines 154-155) does: it raises, or returns
\* without writing a file (the entry was filtered out), or writes
\* <filename>.<ext>; over says whether it replaces a file of that name
EngineOutcomes ==
    [t : {"raise"}, text : EngineTexts, size : {0}, over : {FALSE}]
    \cup [t : {"skip"}, text : {<<>>}, size : {0}, over : {FALSE}]
    \cup [t : {"write"}, text : {<<>>}, size : Sizes, over : BOOLEAN]

\* _download, lines 122-125: the filename of the request, or video_<ms>
JobStart(j, name, ms) ==
    /\ jpc[j] = "new"
    /\ filename' = [filename EXCEPT ![j] =
                        IF name = <<>> THEN N_video \o ms ELSE name]
    /\ jpc' = [jpc EXCEPT ![j] = "engine"]
    /\ UNCHANGED <<dir, actual_filename, file_size, exc, response, made>>
    /\ UNCHANGED <<sweepvars, servervars, parsevars>>

\* _download, lines 154-155: the engine call
Engine(j, o) ==
    /\ jpc[j] = "engine"
    /\ LET e == filename[j] \o EXT
       IN  IF o.t = "write" /\ (At(e) = Absent \/ o.over)
           THEN /\ dir' = Put(e, [kind |-> "file",
                                  size |-> o.size,
                                  age  |-> 0,
                                  by   |-> j])
                /\ made' = [made EXCEPT ![j] = [name |-> e, size |-> o.size]]
           ELSE UNCHANGED <<dir, made>>
    /\ IF o.t = "raise"
       THEN /\ exc' = [exc EXCEPT ![j] = o.text]
            /\ jpc' = [jpc EXCEPT ![j] = "raised"]
       ELSE /\ jpc' = [jpc EXCEPT ![j] = "locate"]
            /\ UNCHANGED exc
    /\ UNCHANGED <<filename, actual_filename, file_size, response>>
    /\ UNCHANGED <<sweepvars, servervars, parsevars>>

\* the entries f of os.listdir(DOWNLOAD_DIR) with f.startswith(filename)
Matches(j) == {e \in Present : StartsWith(e, filename[j])}

\* _download, lines 158-165: the loop over os.listdir, whose order is
\* arbitrary, stops at the first entry that starts with the filename
Locate(j) ==
    /\ jpc[j] = "locate"
    /\ IF Matches(j) = {}
       THEN /\ exc' = [exc EXCEPT ![j] = T_notfound]
            /\ jpc' = [jpc EXCEPT ![j] = "raised"]
            /\ UNCHANGED actual_filename
       ELSE /\ \E e \in Matches(j) :
                    actual_filename' = [actual_filename EXCEPT ![j] = e]
            /\ jpc' = [jpc EXCEPT ![j] = "measure"]
            /\ UNCHANGED exc
    /\ UNCHANGED <<dir, filename, file_size, response, made>>
    /\ UNCHANGED <<sweepvars, servervars, parsevars>>

\* _download, lines 167-169: os.path.getsize
Measure(j) ==
    /\ jpc[j] = "measure"
    /\ LET e == actual_filename[j]
       IN  IF At(e) = Absent
           THEN /\ exc' = [exc EXCEPT ![j] = OSErrorText(T_enoent, e)]
                /\ jpc' = [jpc EXCEPT ![j] = "raised"]
                /\ UNCHANGED file_size
           ELSE /\ file_size' = [file_size EXCEPT ![j] = At(e).size]
                /\ jpc' = [jpc EXCEPT ![j] = "validate"]
                /\ UNCHANGED exc
    /\ UNCHANGED <<dir, filename, actual_filename, response, made>>
    /\ UNCHANGED <<sweepvars, servervars, parsevars>>

\* os.unlink(filepath) followed by raise Exception(text)
UnlinkAndRaise(j, text) ==
    LET e == actual_filename[j]
    IN  /\ IF At(e) = Absent
           THEN /\ exc' = [exc EXCEPT ![j] = OSErrorText(T_enoent, e)]
                /\ UNCHANGED dir
           ELSE IF At(e).kind = "dir"
           THEN /\ exc' = [exc EXCEPT ![j] = OSErrorText(T_eisdir, e)]
                /\ UNCHANGED dir
           ELSE /\ exc' = [exc EXCEPT ![j] = text]
                /\ dir' = Drop(e)
        /\ jpc' = [jpc EXCEPT ![j] = "raised"]
        /\ UNCHANGED response

\* file_size_mb > MAX_FILE_SIZE_MB, with file_size_mb = file_size / MiB
TooLarge(size) == size > MAX_FILE_SIZE_MB * MiB

\* _download, lines 171-187, and the return of download_video (line 88)
Validate(j) ==
    /\ jpc[j] = "validate"
    /\ IF file_size[j] = 0
       THEN UnlinkAndRaise(j, T_empty)
       ELSE IF TooLarge(file_size[j])
       THEN UnlinkAndRaise(j, TooLargeText(file_size[j]))
       ELSE /\ response' = [response EXCEPT ![j] =
                                [status   |-> 200,
                                 detail   |-> NoResult,
                                 filename |-> actual_filename[j]]]
            /\ jpc' = [jpc EXCEPT ![j] = "done"]
            /\ UNCHANGED <<dir, exc>>
    /\ UNCHANGED <<filename, actual_filename, file_size, made>>
    /\ UNCHANGED <<sweepvars, servervars, parsevars>>

\* download_video, lines 89-91: except Exception as e
Respond(j) ==
    /\ jpc[j] = "raised"
    /\ response' = [response EXCEPT ![j] =
                        [status   |-> 400,
                         detail   |-> ParseError(exc[j]),
                         filename |-> <<>>]]
    /\ jpc' = [jpc EXCEPT ![j] = "done"]
    /\ UNCHANGED <<dir, filename, actual_filename, file_size, exc, made>>
    /\ UNCHANGED <<sweepvars, servervars, parsevars>>

\* ---- _cleanup_loop and _cleanup_old_files --------------------------------

\* the age limit of the sweep
AgeCap == RETENTION + INTERVAL + 1

\* variant of SweepStart for a loop that runs a single cycle
SweepStartOnce(listed) ==
    /\ spc = "sleep"
    /\ clock >= INTERVAL
    /\ lastls = "none"
    /\ errs' = {}
    /\ swept' = {}
    /\ IF listed /\ Present # {}
       THEN /\ spc' = "sweep"
            /\ todo' = Present
            /\ UNCHANGED clock
       ELSE /\ clock' = 0
            /\ UNCHANGED <<spc, todo>>
    /\ lastls' = IF listed THEN "ok" ELSE "failed"
    /\ UNCHANGED <<dir, jobvars, servervars, parsevars>>
\* _cleanup_loop wakes from asyncio.sleep(300) and _cleanup_old_files takes
\* the time and lists the directory; listed = FALSE: os.listdir raised,
\* the loop swallows it and sleeps again
SweepStart(listed) ==
    /\ spc = "sleep"
    /\ clock >= INTERVAL
    /\ errs' = {}
    /\ swept' = {}
    /\ IF listed /\ Present # {}
       THEN /\ spc' = "sweep"
            /\ todo' = Present
            /\ UNCHANGED clock
       ELSE /\ clock' = 0
            /\ UNCHANGED <<spc, todo>>
    /\ lastls' = IF listed THEN "ok" ELSE "failed"
    /\ UNCHANGED <<dir, jobvars, servervars, parsevars>>

\* variant of Expired with >= in place of >
ExpiredInclusive(x) == x.age >= RETENTION
\* now - os.path.getmtime(filepath) > 600
Expired(x) == x.age > RETENTION

\* variant of AfterVisit: an exception ends the loop over the entries
AfterVisitAbort(e, raises) == IF raises THEN {} ELSE todo \ {e}
\* the entries left to visit after e: the try is inside the loop, so the
\* loop goes on whether the visit of e raised or not
AfterVisit(e, raises) == todo \ {e}

\* _cleanup_old_files, lines 241-247, for one listed entry; raises = TRUE:
\* os.path.getmtime or os.unlink raised.  After the last entry the loop
\* sleeps again.
SweepFile(e, raises) ==
    /\ spc = "sweep"
    /\ e \in todo
    /\ raises => IsFile(At(e))
    /\ IF raises
       THEN /\ errs' = errs \cup {e}
            /\ UNCHANGED <<dir, swept>>
       ELSE IF IsFile(At(e)) /\ Expired(At(e))
       THEN /\ dir' = Drop(e)
            /\ swept' = swept \cup {e}
            /\ UNCHANGED errs
       ELSE UNCHANGED <<dir, errs, swept>>
    /\ todo' = AfterVisit(e, raises)
    /\ IF todo' = {}
       THEN spc' = "sleep" /\ clock' = 0
       ELSE UNCHANGED <<spc, clock>>
    /\ UNCHANGED <<lastls, jobvars, servervars, parsevars>>

\* time passes while the sweeper sleeps, at most up to the end of the sleep
FileTick ==
    /\ spc = "sleep"
    /\ clock < INTERVAL
    /\ LET d == IF clock + TimeStep > INTERVAL
                THEN INTERVAL - clock ELSE TimeStep
       IN  /\ clock' = clock + d
           /\ dir' = [e \in DOMAIN dir |->
                        IF IsFile(dir[e])
                        THEN [dir[e] EXCEPT !.age =
                                IF @ + d > AgeCap THEN AgeCap ELSE @ + d]
                        ELSE dir[e]]
    /\ UNCHANGED <<spc, todo, errs, swept, lastls>>
    /\ UNCHANGED <<jobvars, servervars, parsevars>>

\* ---- specifications ---------------------------------------------------

InitServer ==
    /\ value = MAX_CONCURRENT
    /\ waiters = <<>>
    /\ fut = [r \in Reqs |-> "none"]
    /\ active_downloads = 0
    /\ pc = [r \in Reqs |-> "new"]
    /\ cancel = [r \in Reqs |-> "none"]
    /\ job = [r \in Reqs |-> "none"]
    /\ waited = [r \in Reqs |-> 0]
    /\ held = [r \in Reqs |-> 0]
    /\ acq = [r \in Reqs |-> 0]
    /\ rel = [r \in Reqs |-> 0]
    /\ ncancel = 0
    /\ ipc = [i \in Infos |-> "new"]
    /\ ijob = [i \in Infos |-> "none"]
    /\ work_queue = <<>>

InitParse ==
    /\ error_text = <<>>
    /\ result = NoResult
    /\ ppc = "text"

\* the jobs and the sweeper at startup; the directory is given
InitFiles ==
    /\ jpc = [j \in Jobs |-> "new"]
    /\ filename = [j \in Jobs |-> <<>>]
    /\ actual_filename = [j \in Jobs |-> <<>>]
    /\ file_size = [j \in Jobs |-> 0]
    /\ exc = [j \in Jobs |-> <<>>]
    /\ response = [j \in Jobs |-> NoResponse]
    /\ made = [j \in Jobs |-> NoFile]
    /\ spc = "sleep"
    /\ clock = 0
    /\ todo = {}
    /\ errs = {}
    /\ swept = {}
    /\ lastls = "none"

Init ==
    /\ InitServer
    /\ InitParse
    /\ InitFiles
    /\ dir = <<>>

\* Spec: every interleaving of the handlers and threads, with no assumption
\* on durations: the timer of a waiting request may fire at any moment.
Next ==
    \/ \E r \in Reqs : Submit(r)
    \/ \E r \in Reqs : TimeoutFires(r)
    \/ \E r \in Reqs : CancelHandler(r)
    \/ \E r \in Reqs : ResumeAcquire(r)
    \/ \E r \in Reqs : \E o \in {"ok", "fail"} : JobEnds(r, o)
    \/ \E r \in Reqs : Return(r)
    \/ \E i \in Infos : InfoSubmit(i)
    \/ \E i \in Infos : \E o \in {"ok", "error"} : InfoReturn(i, o)

Spec == Init /\ [][Next]_vars

\* TimedSpec: the download path with time.  A timer fires when it is due,
\* one second passes when the loop has nothing to run, and no handler is
\* cancelled from outside.  The event loop runs every ready handler and
\* every due timer; nothing is assumed about when a worker thread ends.
TimedNext ==
    \/ \E r \in Reqs : Submit(r)
    \/ \E r \in Reqs : TimerDue(r) /\ TimeoutFires(r)
    \/ \E r \in Reqs : ResumeAcquire(r)
    \/ \E r \in Reqs : \E o \in {"ok", "fail"} : JobEnds(r, o)
    \/ \E r \in Reqs : Return(r)
    \/ Tick

LoopFairness ==
    /\ \A r \in Reqs : WF_vars(TimerDue(r) /\ TimeoutFires(r))
    /\ \A r \in Reqs : WF_vars(ResumeAcquire(r))
    /\ \A r \in Reqs : WF_vars(Return(r))
    /\ WF_vars(Tick)

TimedSpec == Init /\ [][TimedNext]_vars /\ LoopFairness

\* BurstSpec: the scenario of a burst.  All requests arrive at the same
\* instant (before any time passes) and every job runs for more than
\* TIMEOUT seconds.  Every engine call ends: the engine runs under socket
\* timeouts (30 s) and bounded retry budgets (5).
BurstNext ==
    \/ \E r \in Reqs : Submit(r)
    \/ \E r \in Reqs : TimerDue(r) /\ TimeoutFires(r)
    \/ \E r \in Reqs : ResumeAcquire(r)
    \/ \E r \in Reqs : \E o \in {"ok", "fail"} :
            held[r] > TIMEOUT /\ JobEnds(r, o)
    \/ \E r \in Reqs : Return(r)
    \/ Submitted = Reqs /\ Tick

BurstFairness ==
    /\ \A r \in Reqs : WF_vars(Submit(r))
    /\ \A r \in Reqs : WF_vars(TimerDue(r) /\ TimeoutFires(r))
    /\ \A r \in Reqs : WF_vars(ResumeAcquire(r))
    /\ \A r \in Reqs :
          WF_vars(\E o \in {"ok", "fail"} : held[r] > TIMEOUT /\ JobEnds(r, o))
    /\ \A r \in Reqs : WF_vars(Return(r))
    /\ WF_vars(Submitted = Reqs /\ Tick)

BurstSpec == Init /\ [][BurstNext]_vars /\ BurstFairness

\* ParseSpec: _parse_error applied to each failure text
ParseInit ==
    /\ InitServer
    /\ InitFiles
    /\ dir = <<>>
    /\ error_text \in TextsUpTo(MaxFrags)
    /\ result = NoResult
    /\ ppc = "text"

ParseNext == Classify

ParseSpec == ParseInit /\ [][ParseNext]_vars

\* SweepInit: the directory may hold entries of an earlier run at startup
\* (os.makedirs(DOWNLOAD_DIR, exist_ok=True)): a partial file or a link to
\* a file, of an age around the retention window, and a subdirectory.
LeftoverAges == {RETENTION - 1, RETENTION, RETENTION + 1}
SweepInit ==
    /\ InitServer
    /\ InitParse
    /\ InitFiles
    /\ \E p \in {Absent} \cup [kind : {"file", "link"}, size : {1},
                                age : LeftoverAges, by : {0}] :
       \E d \in {Absent, [kind |-> "dir", size |-> 4096, age |-> 0, by |-> 0]} :
          dir = [e \in {n \in Leftovers : (n = L_part /\ p # Absent)
                                            \/ (n = L_sub /\ d # Absent)} |->
                    IF e = L_part THEN p ELSE d]

\* JobSpec: the jobs that were admitted, as threads that run _download at
\* any speed and in any interleaving, on a directory that starts empty.
JobNext ==
    \/ \E j \in Jobs : \E n \in FileNames : \E ms \in Millis : JobStart(j, n, ms)
    \/ \E j \in Jobs : \E o \in EngineOutcomes : Engine(j, o)
    \/ \E j \in Jobs : Locate(j)
    \/ \E j \in Jobs : Measure(j)
    \/ \E j \in Jobs : Validate(j)
    \/ \E j \in Jobs : Respond(j)

JobSpec == Init /\ [][JobNext]_vars

\* SweepSpec: the sweeper with time, next to one download (without a
\* filename, or with one that the partial file of the earlier run starts
\* with).  The sweeper runs when its sleep is over; the loop runs it without
\* delay.
SweepNext ==
    \/ \E n \in {<<>>, N_clip} : JobStart(1, n, MS_a)
    \/ \E o \in EngineOutcomes : Engine(1, o)
    \/ Locate(1)
    \/ Measure(1)
    \/ Validate(1)
    \/ Respond(1)
    \/ \E listed \in BOOLEAN : SweepStart(listed)
    \/ \E e \in Entries : \E raises \in BOOLEAN : SweepFile(e, raises)
    \/ FileTick

SweepFairness ==
    /\ WF_vars(\E listed \in BOOLEAN : SweepStart(listed))
    /\ WF_vars(\E e \in Entries : \E raises \in BOOLEAN : SweepFile(e, raises))
    /\ WF_vars(FileTick)

SweepSpec == SweepInit /\ [][SweepNext]_vars /\ SweepFairness

\* ---- properties --------------------------------------------------------

Final == {"ok", "error", "busy", "cancelled"}
\* no download request is in progress
Quiescent == \A r \in Reqs : pc[r] \in Final \cup {"new"}
\* requests that release() handed a unit and whose handler has not resumed
Handed == {r \in Reqs : pc[r] = "acquire" /\ fut[r] = "result"}
Running == {r \in Reqs : pc[r] = "thread"}
\* requests that were granted a unit and have not released it
Holders == Running \cup Handed
Denied == {r \in Reqs : pc[r] = "busy"}
Admitted == {r \in Reqs : acq[r] > 0}

\* C1: in every reachable state, the number of download jobs that hold a
\* slot (granted a unit and not yet released it) is at most MAX_CONCURRENT.
C1_SlotsBounded == Cardinality(Holders) <= MAX_CONCURRENT

C1_Witness ==
    /\ Cardinality(Running) = MAX_CONCURRENT
    /\ \E r \in Reqs : pc[r] = "acquire" /\ fut[r] = "pending"

\* C2: every acquire() that returned True is followed by exactly one
\* release() on every exit path (result, exception, cancellation), never by
\* two and never by a release without an acquire; once no request is in
\* progress the pool holds MAX_CONCURRENT units again.
C2_AcquireReleasePaired ==
    /\ \A r \in Reqs :
          /\ rel[r] <= acq[r]
          /\ acq[r] <= 1
          /\ pc[r] \in Final => rel[r] = acq[r]
          /\ pc[r] \in {"ok", "error"} => acq[r] = 1
    /\ Quiescent => value = MAX_CONCURRENT

C2_Witness ==
    /\ Quiescent
    /\ \E r \in Reqs : pc[r] = "ok"
    /\ \E r \in Reqs : pc[r] = "error"
    /\ \E r \in Reqs : pc[r] = "cancelled" /\ acq[r] = 1 /\ rel[r] = 1

\* C3: 0 <= active_downloads <= MAX_CONCURRENT in every reachable state, and
\* active_downloads = 0 whenever no download request is in progress, for
\* any mix of successful and failing jobs.
C3_CounterInRange ==
    /\ active_downloads \in 0..MAX_CONCURRENT
    /\ Quiescent => active_downloads = 0

C3_Witness ==
    /\ Quiescent
    /\ active_downloads = 0
    /\ \E r \in Reqs : pc[r] = "ok"
    /\ \E r \in Reqs : pc[r] = "error"
    /\ \E r \in Reqs : pc[r] = "busy"

\* C4 as stated: wherever another handler can observe the shared state,
\* active_downloads = MAX_CONCURRENT - (units available in the pool).
C4_CounterMatchesPool == active_downloads = MAX_CONCURRENT - value

\* C4 amended: active_downloads = MAX_CONCURRENT - (units available) - (the
\* number of requests that have been handed a unit by release() and whose
\* handler has not yet resumed to increment the counter).
C4_CounterMatchesPoolModuloHandOff ==
    active_downloads = MAX_CONCURRENT - value - Cardinality(Handed)

C4_Witness ==
    /\ Handed # {}
    /\ active_downloads < MAX_CONCURRENT - value

\* C5: when MAX_CONCURRENT + k (k >= 1) requests arrive at the same instant
\* and every admitted job holds its slot for more than TIMEOUT seconds,
\* exactly k are denied with SERVER_BUSY, exactly MAX_CONCURRENT are
\* admitted, and every admitted job eventually ends (result or failure)
\* and has released its slot.
C5_BurstDenials ==
    /\ []((\A r \in Reqs : pc[r] \in Final) =>
            /\ Cardinality(Denied) = NReq - MAX_CONCURRENT
            /\ Cardinality(Admitted) = MAX_CONCURRENT
            /\ Denied \cap Admitted = {}
            /\ \A r \in Admitted : pc[r] \in {"ok", "error"} /\ rel[r] = 1)
    /\ \A r \in Reqs : (pc[r] = "thread") ~> (pc[r] \in {"ok", "error"})
    /\ <>(\A r \in Reqs : pc[r] \in Final)

C5_Witness ==
    /\ \A r \in Reqs : pc[r] \in Final
    /\ NReq - MAX_CONCURRENT >= 1
    /\ Cardinality(Denied) = NReq - MAX_CONCURRENT
    /\ \E r \in Reqs : pc[r] = "ok"
    /\ \E r \in Reqs : pc[r] = "error"

\* C6: a request that waits for a slot is eventually granted one or denied
\* with SERVER_BUSY, however long the admitted jobs hold their slots, and
\* it never waits beyond its TIMEOUT-second window.
C6_BoundedWait ==
    /\ [](\A r \in Reqs : pc[r] = "acquire" => waited[r] <= TIMEOUT)
    /\ \A r \in Reqs : (pc[r] = "acquire") ~> (pc[r] \in {"thread", "busy"})

C6_Witness ==
    /\ \E r \in Reqs : pc[r] = "busy"
    /\ \A r \in Reqs : pc[r] # "busy" => pc[r] = "thread" /\ held[r] > TIMEOUT

\* C7: a step of an /info request never changes the pool (its counter, its
\* waiters and their futures) nor active_downloads, and an /info request
\* that has not started can start in every state, also when no unit is free.
C7_InfoNotGated ==
    /\ [][ipc' # ipc =>
            UNCHANGED <<value, waiters, fut, active_downloads>>]_vars
    /\ [](\A i \in Infos : ipc[i] = "new" => ENABLED InfoSubmit(i))

C7_Witness ==
    \E i \in Infos :
        /\ ipc[i] = "thread"
        /\ value = 0
        /\ Cardinality(Running) = MAX_CONCURRENT
        /\ \E r \in Reqs : pc[r] = "acquire" /\ fut[r] = "pending"

\* The classifier of the specification: first match wins over rules 1 to 11
\* on the lowercased text; rule 1 needs both substrings.
RefClassify(error_txt) ==
    LET lower == ToLower(error_txt)
    IN  IF Contains(K_filter, lower) /\ Contains(K_duration, lower)
        THEN Minutes("DURATION_TOO_LONG:over %d minutes", MAX_DURATION \div 60)
        ELSE IF Contains(K_filter, lower)
        THEN Message("DURATION_TOO_LONG:exceeds limit")
        ELSE IF Contains(K_private, lower) \/ Contains(K_signin, lower)
        THEN Message("This video is private or requires login")
        ELSE IF Contains(K_copyright, lower) \/ Contains(K_blocked, lower)
        THEN Message("This video is blocked due to copyright")
        ELSE IF Contains(K_age, lower)
        THEN Message("This video is age-restricted")
        ELSE IF Contains(K_unavailable, lower)
                \/ Contains(K_notavailable, lower)
        THEN Message("This video is unavailable")
        ELSE IF Contains(K_live, lower)
        THEN Message("Cannot download live streams")
        ELSE IF Contains(K_premieres, lower) \/ Contains(K_scheduled, lower)
        THEN Message("This video has not premiered yet")
        ELSE IF Contains(K_members, lower)
        THEN Message("This video is for channel members only")
        ELSE IF Contains(K_unsupported, lower)
        THEN Message("Unsupported URL or no video found")
        ELSE Raw(error_txt)

\* C8: for every failure text, _parse_error returns what the first-match-wins
\* classifier over rules 1 to 11 returns, rule 1 matching only a text that
\* contains both "does not pass filter" and "duration".
C8_MatchesReference ==
    ppc = "done" => result = RefClassify(error_text)

\* C9: a text with both "does not pass filter" and "duration" is classified
\* DURATION_TOO_LONG:over <MAX_DURATION // 60> minutes; a text with "does not
\* pass filter" and without "duration" is classified
\* DURATION_TOO_LONG:exceeds limit, whatever other keywords it contains.
C9_FilterRules ==
    ppc = "done" =>
        LET lower == ToLower(error_text)
        IN  /\ Contains(K_filter, lower) /\ Contains(K_duration, lower) =>
                /\ result.msg = "DURATION_TOO_LONG:over %d minutes"
                /\ result.n = MAX_DURATION \div 60
                /\ result.raw = <<>>
            /\ Contains(K_filter, lower) /\ ~Contains(K_duration, lower) =>
                result = Message("DURATION_TOO_LONG:exceeds limit")

C9_Witness ==
    /\ ppc = "done"
    /\ Contains(K_filter, ToLower(error_text))
    /\ ~Contains(K_duration, ToLower(error_text))
    /\ Contains(K_private, ToLower(error_text))
    /\ result = Message("DURATION_TOO_LONG:exceeds limit")

\* no keyword test of _parse_error matches the lowercased text
NoRuleMatches(lower) ==
    /\ ~Contains(K_duration, lower) /\ ~Contains(K_filter, lower)
    /\ ~Contains(K_private, lower) /\ ~Contains(K_signin, lower)
    /\ ~Contains(K_copyright, lower) /\ ~Contains(K_blocked, lower)
    /\ ~Contains(K_age, lower) /\ ~Contains(K_confirm, lower)
    /\ ~Contains(K_unavailable, lower) /\ ~Contains(K_notavailable, lower)
    /\ ~Contains(K_live, lower)
    /\ ~Contains(K_premieres, lower) /\ ~Contains(K_scheduled, lower)
    /\ ~Contains(K_members, lower)
    /\ ~Contains(K_unsupported, lower)

\* C10: a text whose lowercased form matches none of the classifier's
\* keyword rules is returned unchanged, character for character (in its
\* original case).
C10_PassThrough ==
    ppc = "done" /\ NoRuleMatches(ToLower(error_text)) =>
        result = Raw(error_text)

C10_Witness ==
    /\ ppc = "done"
    /\ NoRuleMatches(ToLower(error_text))
    /\ error_text # ToLower(error_text)
    /\ Len(error_text) > 0
    /\ result = Raw(error_text)


\* ---- properties of _download ---------------------------------------------

\* the job's engine call wrote a file
Produced(j) == made[j] # NoFile
\* the file that job j wrote is no longer in the directory
OwnFileGone(j) == At(made[j].name) = Absent \/ At(made[j].name).by # j
E_EMPTY_FILE == <<"E", "M", "P", "T", "Y", "_", "F", "I", "L", "E">>

\* C11: a download whose produced file is 0 bytes fails, the error the
\* caller gets is EMPTY_FILE, and the file is no longer in the directory
\* when the error is reported.
C11_EmptyFileReported ==
    \A j \in Jobs :
        jpc[j] = "done" /\ Produced(j) /\ made[j].size = 0 =>
            /\ response[j].status = 400
            /\ StartsWith(response[j].detail.raw, E_EMPTY_FILE)
            /\ OwnFileGone(j)

\* C12: a download whose produced file is larger than MAX_FILE_SIZE_MB fails
\* with an error that starts with FILE_TOO_LARGE: and its file is gone when
\* the error is reported; a non-empty produced file of at most
\* MAX_FILE_SIZE_MB is not deleted by its job and is the file of the result.
C12_SizePolicy ==
    \A j \in Jobs :
        jpc[j] = "done" /\ Produced(j) =>
            /\ made[j].size > MAX_FILE_SIZE_MB * 1024 * 1024 =>
                /\ response[j].status = 400
                /\ StartsWith(response[j].detail.raw, T_toolarge)
                /\ OwnFileGone(j)
            /\ made[j].size > 0
                    /\ made[j].size <= MAX_FILE_SIZE_MB * 1024 * 1024 =>
                /\ response[j].status = 200
                /\ response[j].filename = made[j].name

\* C13: whatever the interleaving and the filenames, the entry a job finds
\* after its engine call, and then deletes or returns, is a file that this
\* job wrote.
C13_OwnFilesOnly ==
    [][\A j \in Jobs :
        /\ actual_filename'[j] # actual_filename[j] =>
                At(actual_filename'[j]).by = j
        /\ \A e \in Entries :
                jpc[j] = "validate" /\ jpc'[j] = "raised"
                    /\ At(e) # Absent /\ At(e)' = Absent =>
                At(e).by = j
        /\ jpc[j] = "validate" /\ jpc'[j] = "done" =>
                At(response'[j].filename).by = j]_vars

\* ---- properties of the sweeper -------------------------------------------

\* the step is the visit of entry e by _cleanup_old_files
Visit(e) == spc = "sweep" /\ e \in todo /\ e \notin todo'

\* C14 as stated: one sweep cycle deletes exactly the regular files of the
\* directory whose age is strictly greater than 600 seconds (601 s: gone
\* after the cycle; 599 s and 600 s: remains), and leaves alone every entry
\* that is not a regular file.
C14_DeletesExactlyOldRegularFiles ==
    [][\A e \in Entries :
        Visit(e) /\ At(e) # Absent =>
            /\ At(e).kind = "file" /\ At(e).age > 600 => At(e)' = Absent
            /\ ~(At(e).kind = "file" /\ At(e).age > 600) =>
                    At(e)' = At(e)]_vars

\* C14 amended: the visit of a listed entry deletes it exactly when it
\* passes os.path.isfile (a regular file, or a symbolic link to one), its
\* age is strictly greater than 600 seconds, and neither the check nor the
\* deletion raises; every other entry is left as it is.
C14_DeletesExactlyOldIsFileEntries ==
    [][\A e \in Entries :
        Visit(e) /\ At(e) # Absent =>
            /\ At(e).kind \in {"file", "link"} /\ At(e).age > 600
                    /\ e \notin errs' =>
                    At(e)' = Absent
            /\ ~(At(e).kind \in {"file", "link"} /\ At(e).age > 600
                    /\ e \notin errs') =>
                    At(e)' = At(e)
            /\ \A x \in Entries \ {e} : At(x)' = At(x)]_vars

C14_Witness ==
    /\ spc = "sleep"
    /\ lastls = "ok"
    /\ L_part \in swept
    /\ At(L_sub).kind = "dir"
    /\ \E e \in Entries \ errs : At(e).kind = "file" /\ At(e).age = 600

\* C15: a visit that raises leaves the other listed entries to be visited
\* in the same cycle, and they are visited; a cycle whose listing failed is
\* followed by the next sleep and the next cycle; the sweeper never sleeps
\* longer than 300 seconds and always runs another cycle.
C15_SweeperKeepsRunning ==
    /\ [][\A e \in Entries :
            Visit(e) /\ e \in errs' => todo' = todo \ {e}]_vars
    /\ \A e \in Entries : (e \in todo) ~> (e \notin todo /\ spc = "sleep")
    /\ [](clock <= 300)
    /\ (lastls = "failed") ~> (clock = 300)
    /\ (clock = 300) ~> (clock = 0)
    /\ (clock = 0) ~> (clock = 300)

C15_Witness ==
    /\ spc = "sweep"
    /\ errs # {}
    /\ todo # {}
    /\ swept # {}

\* C20: a regular file is eventually deleted unless visits or listings keep
\* failing; after a cycle without a failure no regular file is left whose
\* age exceeded 600 seconds when the cycle started; and the sweeper deletes
\* a file, also one that a job has returned in its result, only when its age
\* exceeds 600 seconds.
C20_EventuallySwept ==
    /\ (<>[](errs = {} /\ lastls # "failed")) =>
            \A e \in Entries :
                (At(e).kind = "file") ~> (At(e) = Absent)
    /\ [](spc = "sleep" /\ lastls = "ok" =>
            \A e \in Entries \ errs :
                At(e).kind = "file" => At(e).age - clock <= 600)
    /\ [][\A e \in Entries :
            Visit(e) /\ At(e) # Absent /\ At(e)' = Absent =>
                At(e).age > 600]_vars

C20_Witness ==
    /\ jpc[1] = "done"
    /\ response[1].status = 200
    /\ response[1].filename = made[1].name
    /\ response[1].filename \in swept
    /\ At(response[1].filename) = Absent

\* ---- properties of the handlers ------------------------------------------

\* the handler of r is suspended, in acquire() or in to_thread
InHandler(r) == pc[r] \in {"acquire", "thread"}
\* the step ends the handler of r
Ends(r) == InHandler(r) /\ ~InHandler(r)'

\* C16: a download request whose handler task is not cancelled from outside
\* ends in exactly one of three ways: 429 SERVER_BUSY if and only if its
\* admission was denied (the timer of wait_for fired), 400 if and only if
\* its admitted job raised, the result if and only if its job returned;
\* never with the exception of the job passing through the handler.
C16_ThreeOutcomes ==
    /\ [][\A r \in Reqs :
            Ends(r) /\ cancel[r] # "cancel" =>
                /\ pc'[r] \in {"busy", "error", "ok"}
                /\ pc'[r] = "busy" <=> pc[r] = "acquire" /\ cancel[r] = "timeout"
                /\ pc'[r] = "error" <=> pc[r] = "thread" /\ job[r] = "fail"
                /\ pc'[r] = "ok" <=> pc[r] = "thread" /\ job[r] = "ok"]_vars
    /\ [](\A r \in Reqs :
            /\ pc[r] = "busy" => acq[r] = 0
            /\ pc[r] \in {"error", "ok"} => acq[r] = 1)

C16_Witness ==
    \E r1, r2, r3 \in Reqs :
        /\ pc[r1] = "busy" /\ acq[r1] = 0
        /\ pc[r2] = "error" /\ rel[r2] = 1
        /\ pc[r3] = "ok" /\ rel[r3] = 1

\* C17: while calls are blocked in the engine, a new /info request and a new
\* /download request are still served, and a download that was granted a
\* unit has its engine call running, not waiting for another call to end.
C17_EngineNeverStalls ==
    /\ \A i \in Infos : ipc[i] = "new" => ENABLED InfoSubmit(i)
    /\ \A r \in Reqs : pc[r] = "new" => ENABLED Submit(r)
    /\ \A r \in Reqs : pc[r] = "thread" => job[r] # "queued"

\* C18: for a granted request: the unit is granted, then active_downloads
\* is incremented (once, by one), then the job runs, then active_downloads
\* is decremented (once, by one) and the unit released in the same
\* uninterrupted step, after the job has ended, whether it returned or raised.
C18_GrantIncrementJobDecrementRelease ==
    /\ [][\A r \in Reqs :
            /\ acq'[r] # acq[r] =>
                /\ acq[r] = 0 /\ acq'[r] = 1
                /\ \/ pc[r] = "new" /\ value' = value - 1
                   \/ pc[r] = "acquire" /\ fut[r] = "result"
                /\ active_downloads' = active_downloads + 1
                /\ job[r] = "none" /\ job'[r] \in {"queued", "running"}
            /\ Ends(r) /\ pc[r] = "thread" =>
                /\ rel[r] = 0 /\ rel'[r] = 1
                /\ active_downloads' = active_downloads - 1
                /\ cancel[r] = "none" => job[r] \in {"ok", "fail"}
            /\ rel'[r] # rel[r] => Ends(r) /\ pc[r] = "thread"
            /\ job'[r] # job[r] /\ job'[r] # "none" => acq'[r] = 1]_vars
    /\ [][active_downloads' # active_downloads =>
            \E r \in Reqs : acq'[r] # acq[r] \/ rel'[r] # rel[r]]_vars

C18_Witness ==
    /\ \E r \in Reqs : pc[r] = "ok" /\ acq[r] = 1 /\ rel[r] = 1
    /\ \E r \in Reqs : pc[r] = "error" /\ acq[r] = 1 /\ rel[r] = 1
    /\ \E r \in Reqs : pc[r] = "thread" /\ job[r] = "running"

=============================================================================
